---- MODULE Spec2Model ----
(***************************************************************************)
(* FriendSmasher::Math scalar primitives (Library/Math/math_op.h).         *)
(*                                                                         *)
(* An `unsigned int` is a 32-bit word.  TLC's integers are 32-bit signed,  *)
(* so a word is modelled by the set of the indices of its set bits         *)
(* (bit 0 is the least significant): the word's value is the sum of 2^i    *)
(* over its members.  |, & are set union and intersection, shifts move     *)
(* the indices and drop what leaves 0..31, + and - are ripple-carry        *)
(* additions modulo 2^32.  An `int` holding a 32-bit pattern (PrevPow2's   *)
(* x) is the same set, bit 31 being the sign.  Small `int` results         *)
(* (BitCount, HighestBitSet, Clamp, RoundToNearest) are TLA+ integers.     *)
(***************************************************************************)
EXTENDS Integers, Sequences, FiniteSets

VARIABLES op, args, ret, x, iters, pc

vars == <<op, args, ret, x, iters, pc>>

----------------------------------------------------------------------------
(* Bounds of the model *)

\* width of the bit windows the word inputs are built from
SmallBits == 4
\* cap on the recorded number of iterations of PrevPow2's loop
MaxIters == 34
\* Clamp's inputs range over -MaxClamp..MaxClamp
MaxClamp == 3
\* Normalize's inputs range over -MaxNorm..MaxNorm
MaxNorm == 3
\* RoundToNearest's small inputs range over -2..MaxRound
MaxRound == 8

----------------------------------------------------------------------------
(* 32-bit words *)

WordBits == 32

BitIdx == 0..(WordBits - 1)

Zero == {}

One == {0}

AllOnes == BitIdx

Bit(w, i) == IF i \in w THEN 1 ELSE 0

\* w >> k on an unsigned
Shr(w, k) == {i - k : i \in {j \in w : j >= k}}

\* w << k, the bits shifted out of the word are lost
Shl(w, k) == {i + k : i \in {j \in w : j + k < WordBits}}

\* w >> k on a signed int: the sign bit is replicated
Sar(w, k) ==
    Shr(w, k) \cup (IF (WordBits - 1) \in w THEN (WordBits - k)..(WordBits - 1) ELSE {})

Or(a, b) == a \cup b

And(a, b) == a \cap b

Not(w) == BitIdx \ w

RECURSIVE AddBits(_, _, _, _)
AddBits(a, b, i, c) ==
    IF i = WordBits THEN {}
    ELSE LET s == Bit(a, i) + Bit(b, i) + c
         IN  (IF s % 2 = 1 THEN {i} ELSE {}) \cup AddBits(a, b, i + 1, s \div 2)

\* a + b modulo 2^32
Add(a, b) == AddBits(a, b, 0, 0)

\* a - b modulo 2^32 (a + ~b + 1)
Sub(a, b) == AddBits(a, Not(b), 0, 1)

MaxBit(w) == CHOOSE i \in w : \A j \in w : j <= i

\* a < b as unsigned values: the highest bit where they differ is b's
ULess(a, b) == a # b /\ MaxBit((a \ b) \cup (b \ a)) \in b

ULe(a, b) == a = b \/ ULess(a, b)

RECURSIVE ModFrom(_, _, _, _)
ModFrom(w, m, i, acc) ==
    IF i < 0 THEN acc ELSE ModFrom(w, m, i - 1, (2 * acc + Bit(w, i)) % m)

\* w % m for a small modulus m
UMod(w, m) == ModFrom(w, m, WordBits - 1, 0)

\* the literal whose digits, most significant first, are ds in base 2^per,
\* truncated to the word
Literal(ds, per) ==
    {i \in BitIdx : \E k \in 1..Len(ds) : \E b \in 0..(per - 1) :
        /\ i = per * (Len(ds) - k) + b
        /\ (ds[k] \div (2 ^ b)) % 2 = 1}

Octal(ds) == Literal(ds, 3)

Hex(ds) == Literal(ds, 4)

IsPow2(w) == Cardinality(w) = 1

RECURSIVE ToInt(_)
\* the value of a word below 2^31, as an integer
ToInt(w) == IF w = {} THEN 0 ELSE LET i == MaxBit(w) IN 2 ^ i + ToInt(w \ {i})

----------------------------------------------------------------------------
(* Power-of-two and bit utilities *)

\* NextPow2 without its leading --x
NextPow2NoDecrement(x0) ==
    LET x2 == Or(x0, Shr(x0, 1))
        x3 == Or(x2, Shr(x2, 2))
        x4 == Or(x3, Shr(x3, 4))
        x5 == Or(x4, Shr(x4, 8))
        x6 == Or(x5, Shr(x5, 16))
    IN  Add(x6, One)

NextPow2(x0) ==
    LET x1 == Sub(x0, One)
        x2 == Or(x1, Shr(x1, 1))
        x3 == Or(x2, Shr(x2, 2))
        x4 == Or(x3, Shr(x3, 4))
        x5 == Or(x4, Shr(x4, 8))
        x6 == Or(x5, Shr(x5, 16))
    IN  Add(x6, One)

\* nLog2 without the x >>= 1 that follows the smear
nLog2NoShift(x0) ==
    LET x1 == Or(x0, Shr(x0, 1))
        x2 == Or(x1, Shr(x1, 2))
        x3 == Or(x2, Shr(x2, 4))
        x4 == Or(x3, Shr(x3, 8))
        x6 == Or(x4, Shr(x4, 16))
        x7 == Sub(x6, And(Shr(x6, 1), Hex(<<5, 5, 5, 5, 5, 5, 5, 5>>)))
        x8 == Add(And(Shr(x7, 2), Hex(<<3, 3, 3, 3, 3, 3, 3, 3>>)),
                  And(x7, Hex(<<3, 3, 3, 3, 3, 3, 3, 3>>)))
        x9 == And(Add(Shr(x8, 4), x8), Hex(<<0, 15, 0, 15, 0, 15, 0, 15>>))
        x10 == Add(x9, Shr(x9, 8))
        x11 == Add(x10, Shr(x10, 16))
    IN  And(x11, Hex(<<3, 15>>))

nLog2(x0) ==
    LET x1 == Or(x0, Shr(x0, 1))
        x2 == Or(x1, Shr(x1, 2))
        x3 == Or(x2, Shr(x2, 4))
        x4 == Or(x3, Shr(x3, 8))
        x5 == Or(x4, Shr(x4, 16))
        x6 == Shr(x5, 1)
        x7 == Sub(x6, And(Shr(x6, 1), Hex(<<5, 5, 5, 5, 5, 5, 5, 5>>)))
        x8 == Add(And(Shr(x7, 2), Hex(<<3, 3, 3, 3, 3, 3, 3, 3>>)),
                  And(x7, Hex(<<3, 3, 3, 3, 3, 3, 3, 3>>)))
        x9 == And(Add(Shr(x8, 4), x8), Hex(<<0, 15, 0, 15, 0, 15, 0, 15>>))
        x10 == Add(x9, Shr(x9, 8))
        x11 == Add(x10, Shr(x10, 16))
    IN  And(x11, Hex(<<3, 15>>))

\* BitCount with the last mask one octal digit short (0707070707)
BitCountShortMask(u) ==
    LET uCount == Sub(Sub(u, And(Shr(u, 1), Octal(<<3, 3, 3, 3, 3, 3, 3, 3, 3, 3, 3>>))),
                      And(Shr(u, 2), Octal(<<1, 1, 1, 1, 1, 1, 1, 1, 1, 1, 1>>)))
    IN  UMod(And(Add(uCount, Shr(uCount, 3)), Octal(<<7, 0, 7, 0, 7, 0, 7, 0, 7>>)), 63)

BitCount(u) ==
    LET uCount == Sub(Sub(u, And(Shr(u, 1), Octal(<<3, 3, 3, 3, 3, 3, 3, 3, 3, 3, 3>>))),
                      And(Shr(u, 2), Octal(<<1, 1, 1, 1, 1, 1, 1, 1, 1, 1, 1>>)))
    IN  UMod(And(Add(uCount, Shr(uCount, 3)), Octal(<<3, 0, 7, 0, 7, 0, 7, 0, 7, 0, 7>>)), 63)

\* the value of __builtin_clz(u): the number of zero bits above the highest
\* set bit.  The builtin's result is undefined for u = 0 (bsr leaves its
\* destination unspecified, clz gives 32): any count in 0..32.
Clz(u) == IF u = Zero THEN 0..WordBits ELSE {(WordBits - 1) - MaxBit(u)}

\* the _MSC_VER branch of HighestBitSet
HighestBitSetMSC(u) ==
    LET x1 == Or(u, Shr(u, 1))
        x2 == Or(x1, Shr(x1, 2))
        x3 == Or(x2, Shr(x2, 4))
        x4 == Or(x3, Shr(x3, 8))
        x5 == Or(x4, Shr(x4, 16))
    IN  {31 - BitCount(x5)}

\* the __GNUC__ branch of HighestBitSet
HighestBitSetGNUC(u) == {31 - c : c \in Clz(u)}

\* the results HighestBitSet(u) can have in a build taking the given branch
HighestBitSet(build, u) ==
    IF build = "_MSC_VER" THEN HighestBitSetMSC(u) ELSE HighestBitSetGNUC(u)

----------------------------------------------------------------------------
(* IEEE-754 single precision: bit 31 the sign, bits 23..30 the exponent,   *)
(* bits 0..22 the mantissa                                                 *)

SignBit == {WordBits - 1}

ExponentBits == 23..30

MantissaBits == 0..22

IsNaN(k) == ExponentBits \subseteq k /\ k \cap MantissaBits # {}

IsZero(k) == k \ SignBit = {}

\* k < 0.0f: false for both zeros and for NaN
FloatLessZero(k) == ~IsNaN(k) /\ ~IsZero(k) /\ (WordBits - 1) \in k

\* 1.0f and -1.0f
FloatOne == Hex(<<3, 15, 8, 0, 0, 0, 0, 0>>)

FloatMinusOne == Hex(<<11, 15, 8, 0, 0, 0, 0, 0>>)

\* template<typename T> T Sign(T k), at T = float, on the bits of k
SignT(k) == IF FloatLessZero(k) THEN FloatMinusOne ELSE FloatOne

\* float Sign(float k): the bits of k are read and written through unsigned&
SignFloat(k) ==
    Or(And(k, Hex(<<8, 0, 0, 0, 0, 0, 0, 0>>)), Hex(<<3, 15, 8, 0, 0, 0, 0, 0>>))

Sign(overload, k) == IF overload = "float" THEN SignFloat(k) ELSE SignT(k)

----------------------------------------------------------------------------
(* Range utilities *)

\* Clamp without the exchange of reversed bounds
ClampNoSwap(value, min, max) ==
    IF value < min THEN min
    ELSE IF max < value THEN max
    ELSE value

Clamp(value, min, max) ==
    LET swap == min > max
        lo == IF swap THEN max ELSE min
        hi == IF swap THEN min ELSE max
    IN  IF value < lo THEN lo
        ELSE IF hi < value THEN hi
        ELSE value

\* A result of Normalize is the rational num/den, <<num, den>>; <<0, 0>> is
\* the NaN of 0.0f/0.0f.  The quotient of the two floats stands for the float
\* nearest to it.
NaN == <<0, 0>>

\* (T)(fDelta/fRange): at T = float the quotient; at T = int the quotient
\* truncated toward zero.  The conversion of a NaN to int is undefined:
\* 0 (ARM vcvt) or the most negative int (x86 cvttss2si).
Quotient(T, fDelta, fRange) ==
    IF fRange = 0 /\ fDelta = 0
        THEN (IF T = "float" THEN {NaN} ELSE {<<0, 1>>, <<-2147483647 - 1, 1>>})
    ELSE IF T = "float" THEN {<<fDelta, fRange>>}
    ELSE {<<fDelta \div fRange, 1>>}

\* the results Normalize<T>(value, min, max) can have, for integer-valued
\* arguments
Normalize(T, value, min, max) ==
    IF value < min THEN {<<min, 1>>}
    ELSE IF max < value THEN {<<max, 1>>}
    ELSE LET fRange == max - min
             fDelta == value - min
         IN  Quotient(T, fDelta, fRange)

----------------------------------------------------------------------------
(* Rounding *)

FloatMantBits == 24

RECURSIVE Ulp(_, _)
\* the spacing of the floats around the integer n >= 0
Ulp(n, q) == IF n < (2 ^ FloatMantBits) * q THEN q ELSE Ulp(n, 2 * q)

\* float(n) for a non-negative integer n: n rounded to a 24-bit significand,
\* ties to the even significand
FloatOfNat(n) ==
    LET q == Ulp(n, 1)
        r == n % q
        down == n - r
    IN  IF 2 * r < q THEN down
        ELSE IF 2 * r > q THEN down + q
        ELSE IF (down \div q) % 2 = 0 THEN down
        ELSE down + q

\* the float nearest to the integer n; float arithmetic on integer-valued
\* floats is the exact result rounded this way
FloatOf(n) == IF n < 0 THEN -FloatOfNat(-n) ELSE FloatOfNat(n)

\* a % b of C++ for b > 0: the remainder has the sign of a
CRem(a, b) == IF a >= 0 THEN a % b ELSE -((-a) % b)

RoundToNearest(nInput, nNearest) ==
    IF nNearest > nInput \/ nNearest <= 0 THEN nInput
    ELSE LET xf == FloatOf(CRem(nInput, nNearest))
         IN  IF xf < FloatOf(nNearest \div 2)
                 THEN FloatOf(FloatOf(nInput) - xf)
                 ELSE FloatOf(FloatOf(nInput) + FloatOf(FloatOf(nNearest) - xf))

----------------------------------------------------------------------------
(* Inputs *)

SmallWords == SUBSET (0..(SmallBits - 1))

Windows == {Shl(p, s) : p \in SmallWords, s \in 0..(WordBits - SmallBits)}

TwoBitWords == {{i, j} : i \in BitIdx, j \in BitIdx}

Words == Windows \cup TwoBitWords \cup {Not(w) : w \in Windows \cup TwoBitWords}

\* PrevPow2's inputs
LoopWords == Windows \cup {Not(w) : w \in Windows}

Builds == {"_MSC_VER", "__GNUC__"}

Overloads == {"float", "T"}

Types == {"float", "int"}

\* integers whose conversion to float rounds
BigInts == {2 ^ FloatMantBits + 1, 2 ^ FloatMantBits + 3}

----------------------------------------------------------------------------
(* The calls *)

Init ==
    /\ op = "none"
    /\ args = <<>>
    /\ ret = "none"
    /\ x = Zero
    /\ iters = 0
    /\ pc = "idle"

\* a call that runs to its return in one step
Return(f, a, r) ==
    /\ op' = f
    /\ args' = a
    /\ ret' = r
    /\ pc' = "done"
    /\ UNCHANGED <<x, iters>>

NextPow2Call ==
    /\ pc = "idle"
    /\ \E w \in Words : Return("NextPow2", <<w>>, NextPow2(w))

nLog2Call ==
    /\ pc = "idle"
    /\ \E w \in Words : Return("nLog2", <<w>>, nLog2(w))

BitCountCall ==
    /\ pc = "idle"
    /\ \E u \in Words : Return("BitCount", <<u>>, BitCount(u))

HighestBitSetCall ==
    /\ pc = "idle"
    /\ \E build \in Builds : \E u \in Words : \E r \in HighestBitSet(build, u) :
           Return("HighestBitSet", <<build, u>>, r)

SignCall ==
    /\ pc = "idle"
    /\ \E overload \in Overloads : \E k \in Words :
           Return("Sign", <<overload, k>>, Sign(overload, k))

ClampCall ==
    /\ pc = "idle"
    /\ \E value \in -MaxClamp..MaxClamp : \E min \in -MaxClamp..MaxClamp :
           \E max \in -MaxClamp..MaxClamp :
               Return("Clamp", <<value, min, max>>, Clamp(value, min, max))

NormalizeCall ==
    /\ pc = "idle"
    /\ \E T \in Types : \E value \in -MaxNorm..MaxNorm : \E min \in -MaxNorm..MaxNorm :
           \E max \in -MaxNorm..MaxNorm : \E r \in Normalize(T, value, min, max) :
               Return("Normalize", <<T, value, min, max>>, r)

RoundToNearestCall ==
    /\ pc = "idle"
    /\ \E nInput \in (-2..MaxRound) \cup BigInts : \E nNearest \in -1..MaxRound :
           Return("RoundToNearest", <<nInput, nNearest>>,
                  RoundToNearest(nInput, nNearest))

\* PrevPow2: entry, up to the first test of the loop
PrevPow2Call ==
    \E n \in LoopWords :
        /\ pc = "idle"
        /\ op' = "PrevPow2"
        /\ args' = <<n>>
        /\ iters' = 0
        /\ IF n = Zero
               THEN ret' = n /\ pc' = "done" /\ x' = x
               ELSE x' = One /\ pc' = "loop" /\ ret' = ret

\* one iteration: x < n, with the int x converted to unsigned, then x <<= 1.
\* The shift keeps the low 32 bits (what the compilers emit, and what the
\* language defines since C++20).  Iterations are recorded up to MaxIters.
PrevPow2Loop ==
    /\ pc = "loop"
    /\ ULess(x, args[1])
    /\ iters < MaxIters
    /\ x' = Shl(x, 1)
    /\ iters' = iters + 1
    /\ UNCHANGED <<op, args, ret, pc>>

\* the loop's exit: return x >>= 1, an arithmetic shift of the int
PrevPow2Exit ==
    /\ pc = "loop"
    /\ ~ULess(x, args[1])
    /\ x' = Sar(x, 1)
    /\ ret' = Sar(x, 1)
    /\ pc' = "done"
    /\ UNCHANGED <<op, args, iters>>

Next ==
    \/ NextPow2Call
    \/ nLog2Call
    \/ BitCountCall
    \/ HighestBitSetCall
    \/ SignCall
    \/ ClampCall
    \/ NormalizeCall
    \/ RoundToNearestCall
    \/ PrevPow2Call
    \/ PrevPow2Loop
    \/ PrevPow2Exit

Spec == Init /\ [][Next]_vars

----------------------------------------------------------------------------
(* Properties *)

\* r is the largest power of two that is <= n
IsLargestPow2Le(r, n) ==
    /\ IsPow2(r)
    /\ ULe(r, n)
    /\ \A k \in BitIdx : ULe({k}, n) => ULe({k}, r)

\* r is the smallest power of two that is >= n
IsSmallestPow2Ge(r, n) ==
    /\ IsPow2(r)
    /\ ULe(n, r)
    /\ \A k \in BitIdx : ULe(n, {k}) => ULe(r, {k})

Min2(a, b) == IF a < b THEN a ELSE b

Max2(a, b) == IF a > b THEN a ELSE b

\* C1: for every n with 0 <= n <= 2^30, PrevPow2(n) is the largest power of
\* two that is <= n (n itself when n is a power of two), and 0 when n = 0.
C1_PrevPow2IsLargestPow2Le ==
    (op = "PrevPow2" /\ pc = "done" /\ ULe(args[1], {30})) =>
        IF args[1] = Zero THEN ret = Zero ELSE IsLargestPow2Le(ret, args[1])

\* C2: for 0 < nearest <= value, RoundToNearest(value, nearest) is value - r
\* when 2*r < nearest and value - r + nearest otherwise, r = value mod nearest;
\* when nearest > value or nearest <= 0 it is value.
C2_RoundToNearestIsNearestMultiple ==
    op = "RoundToNearest" =>
        LET value == args[1]
            nearest == args[2]
        IN  IF 0 < nearest /\ nearest <= value
                THEN LET r == value % nearest
                     IN  ret = IF 2 * r < nearest THEN value - r
                               ELSE value - r + nearest
                ELSE ret = value

\* C3: for min < max, Normalize(value, min, max) is the fractional position
\* (clamped value - min)/(max - min) of value clamped into [min, max]: 0 when
\* value <= min, 1 when value >= max, always in [0, 1].
C3_NormalizeIsFractionInUnitInterval ==
    (op = "Normalize" /\ args[3] < args[4]) =>
        LET value == args[2]
            min == args[3]
            max == args[4]
            clamped == Max2(min, Min2(value, max))
        IN  /\ ret[2] > 0
            /\ ret[1] * (max - min) = (clamped - min) * ret[2]
            /\ 0 <= ret[1] /\ ret[1] <= ret[2]
            /\ value <= min => ret[1] = 0
            /\ value >= max => ret[1] = ret[2]

\* C4: for every non-zero u, HighestBitSet(u) is the index of the most
\* significant set bit of u, on the _MSC_VER branch as on the __GNUC__ branch.
C4_HighestBitSetIsTopBitOnEveryBranch ==
    (op = "HighestBitSet" /\ args[2] # Zero) => ret = MaxBit(args[2])

\* C5 as stated: for every x >= 1, NextPow2(x) is the smallest power of two
\* that is >= x.
C5_NextPow2IsSmallestPow2GeForAll ==
    (op = "NextPow2" /\ args[1] # Zero) => IsSmallestPow2Ge(ret, args[1])

\* C5 amended: for every x with 1 <= x <= 2^31, NextPow2(x) is the smallest
\* power of two that is >= x; for x > 2^31 no such power fits the word, the
\* increment wraps and NextPow2(x) is 0.
C5_NextPow2IsSmallestPow2GeUpTo2Pow31 ==
    (op = "NextPow2" /\ args[1] # Zero) =>
        IF ULe(args[1], {31}) THEN IsSmallestPow2Ge(ret, args[1]) ELSE ret = Zero

\* NextPow2 has rounded a value strictly between 2^30 and 2^31 up to 2^31
C5_Witness ==
    /\ op = "NextPow2"
    /\ MaxBit(args[1] \cup {0}) = 30
    /\ ~IsPow2(args[1])
    /\ ret = {31}

\* C6: for every input n, the doubling loop of PrevPow2 ends after at most 32
\* iterations.
C6_PrevPow2LoopAtMost32Iterations ==
    op = "PrevPow2" => (iters <= 32 /\ (iters = 32 => ~ULess(x, args[1])))

\* C7: for every k that is not a NaN, Sign(float) returns the bits the generic
\* Sign<T> rule gives: -1.0f when k < 0, +1.0f otherwise, both zeros included.
C7_SignFloatMatchesGeneric ==
    (op = "Sign" /\ args[1] = "float" /\ ~IsNaN(args[2])) =>
        /\ ret = SignT(args[2])
        /\ IsZero(args[2]) => ret = FloatOne

\* C8: Clamp(value, a, b) = Clamp(value, b, a); the result is value when
\* min(a,b) <= value <= max(a,b), min(a,b) when value is below it and
\* max(a,b) when value is above it.
C8_ClampIsSymmetricInItsBounds ==
    op = "Clamp" =>
        LET value == args[1]
            lo == Min2(args[2], args[3])
            hi == Max2(args[2], args[3])
        IN  /\ ret = Clamp(value, args[3], args[2])
            /\ (lo <= value /\ value <= hi) => ret = value
            /\ value < lo => ret = lo
            /\ value > hi => ret = hi
            /\ lo <= ret /\ ret <= hi

\* Clamp was called with its bounds reversed and a value strictly between them
C8_Witness ==
    /\ op = "Clamp"
    /\ args[2] > args[3]
    /\ args[3] < args[1] /\ args[1] < args[2]
    /\ ret = args[1]

\* C9: for every 32-bit u, BitCount(u) is the number of set bits of u.
C9_BitCountIsPopulationCount ==
    op = "BitCount" => ret = Cardinality(args[1])

\* BitCount has counted the 32 bits of 0xFFFFFFFF
C9_Witness ==
    /\ op = "BitCount"
    /\ args[1] = AllOnes
    /\ ret = 32

\* C10: for every x > 0, nLog2(x) is floor(log2(x)): the k in 0..31 with
\* 2^k <= x < 2^(k+1).
C10_nLog2IsFloorLog2 ==
    (op = "nLog2" /\ args[1] # Zero) =>
        LET k == ToInt(ret)
        IN  /\ k \in 0..31
            /\ ULe({k}, args[1])
            /\ \A j \in BitIdx : ULe({j}, args[1]) => j <= k

\* nLog2 has returned 31 for a value above 2^31 that is no power of two
C10_Witness ==
    /\ op = "nLog2"
    /\ (WordBits - 1) \in args[1]
    /\ ~IsPow2(args[1])
    /\ ToInt(ret) = 31

====
